---- MODULE Spec2Model ----
(***************************************************************************)
(* A model of the validate command (cmd/root.go): Execute -> RootCmd.Run   *)
(* -> read -> readJSONLFile / readJSONLResource / readGZFile /             *)
(* readGZResource / readStdin -> validateLines.                            *)
(*                                                                         *)
(* Strings are sequences of tokens; every token stands for a fixed run of  *)
(* characters (TokLen), so that len(), strings.HasSuffix, strings.Contains *)
(* and strings.TrimSpace are computed on the text and not assumed.         *)
(***************************************************************************)
EXTENDS Integers, Sequences, FiniteSets, TLC

\* ------------------------------------------------------------------------
\* Bounds of the model
\* ------------------------------------------------------------------------

\* the longest input stream, in lines
MaxLines == 3

\* the longest validator reason, in words, that the classification is
\* checked on (SpecClassify)
MaxReasonLen == 4

\* ------------------------------------------------------------------------
\* Text
\* ------------------------------------------------------------------------

\* bufio.MaxScanTokenSize, the buffer limit of the scanner bufio.NewScanner
\* returns: a line that does not fit stops the scan with ErrTooLong.
MaxScanTokenSize == 64 * 1024

\* the number of characters a token stands for
TokLen(t) ==
    CASE t = "file"  -> 4
      [] t = "http"  -> 4
      [] t = "https" -> 5
      [] t = "ftp"   -> 3
      [] t = "://"   -> 3
      [] t = "jsonl" -> 5
      [] t = "gz"    -> 2
      [] t = "txt"   -> 3
      [] t = "ht"    -> 2
      [] t = "%"     -> 3          \* a malformed percent escape, "%zz"
      [] t = "{}"    -> 2          \* the text of a record
      [] t = "BIG"   -> MaxScanTokenSize   \* a run of 64K non-blank characters
      [] OTHER       -> 1          \* "/", ".", "?", "h", "d", " ", "\t"

RECURSIVE StrLen(_)
\* len(s)
StrLen(s) == IF s = <<>> THEN 0 ELSE TokLen(Head(s)) + StrLen(Tail(s))

\* strings.HasSuffix(s, suffix)
HasSuffix(s, suffix) ==
    /\ Len(s) >= Len(suffix)
    /\ SubSeq(s, Len(s) - Len(suffix) + 1, Len(s)) = suffix

\* strings.Contains(s, substr)
Contains(s, substr) ==
    \E i \in 0..(Len(s) - Len(substr)) : SubSeq(s, i + 1, i + Len(substr)) = substr

\* unicode.IsSpace on a token
IsSpace(t) == t \in {" ", "\t"}

RECURSIVE TrimLeft(_)
TrimLeft(s) == IF s # <<>> /\ IsSpace(Head(s)) THEN TrimLeft(Tail(s)) ELSE s

RECURSIVE TrimRight(_)
TrimRight(s) ==
    IF s # <<>> /\ IsSpace(s[Len(s)]) THEN TrimRight(SubSeq(s, 1, Len(s) - 1)) ELSE s

\* strings.TrimSpace(s)
TrimSpace(s) == TrimRight(TrimLeft(s))

\* strings.ToUpper on the file type override
ToUpper(s) ==
    CASE s = "jsonl" -> "JSONL"
      [] s = "gz"    -> "GZ"
      [] OTHER       -> s

\* ------------------------------------------------------------------------
\* net/url: the parts of url.Parse that read() relies on
\* ------------------------------------------------------------------------

\* tokens made of letters only (what a URL scheme may consist of)
IsAlpha(t) == t \in {"file", "http", "https", "ftp", "ht", "h", "d", "jsonl", "gz", "txt"}

\* the least i with s[i] = t, Len(s) + 1 when there is none
IndexOf(s, t) ==
    IF \E i \in 1..Len(s) : s[i] = t
    THEN CHOOSE i \in 1..Len(s) : s[i] = t /\ \A j \in 1..(i - 1) : s[j] # t
    ELSE Len(s) + 1

\* url.Parse(rawURL): the query is cut off at the first "?", the scheme is the
\* leading run of letters before ":", after "//" the authority runs up to the
\* next "/", and the rest is the path. A malformed percent escape is an error.
UrlParse(rawURL) ==
    LET noQuery   == SubSeq(rawURL, 1, IndexOf(rawURL, "?") - 1)
        hasScheme == Len(noQuery) >= 2 /\ IsAlpha(noQuery[1]) /\ noQuery[2] = "://"
        rest      == IF hasScheme THEN SubSeq(noQuery, 3, Len(noQuery)) ELSE noQuery
        slash     == IndexOf(rest, "/")
    IN  [ err    |-> Contains(noQuery, <<"%">>),
          Scheme |-> IF hasScheme THEN noQuery[1] ELSE "",
          Host   |-> IF hasScheme THEN SubSeq(rest, 1, slash - 1) ELSE <<>>,
          Path   |-> IF hasScheme THEN SubSeq(rest, slash, Len(rest)) ELSE rest ]

\* ------------------------------------------------------------------------
\* Inputs
\* ------------------------------------------------------------------------

\* the values of --input-url the model runs on
Locators ==
    { <<>>,                                                    \* standard input
      <<"ht">>,                                                \* "ht"
      <<"d", ".", "gz">>,                                      \* "d.gz"
      <<"file", "://", "/", "d", ".", "jsonl">>,               \* file:///d.jsonl
      <<"file", "://", "/", "d", ".", "gz">>,                  \* file:///d.gz
      <<"file", "://", "/", "d", ".", "txt">>,                 \* file:///d.txt
      <<"file", "://", "/", "d", "gz">>,                       \* file:///dgz
      <<"http", "://", "h", "/", "d", ".", "jsonl">>,          \* http://h/d.jsonl
      <<"https", "://", "h", "/", "d", ".", "gz">>,            \* https://h/d.gz
      <<"http", "://", "h", "/", "d">>,                        \* http://h/d
      <<"https", "://", "h", "/", "d", "jsonl", "?", "gz">>,   \* https://h/djsonl?gz
      <<"ftp", "://", "h", "/", "d", ".", "jsonl">>,           \* ftp://h/d.jsonl
      <<"/", "d", ".", "jsonl">>,                              \* /d.jsonl
      <<"http", "://", "h", "/", "%">> }                       \* http://h/%zz

\* the values of --input-file-type the model runs on
FileTypes == {"", "jsonl", "GZ"}

\* the lines a stream is made of: empty, blanks only, a record surrounded by
\* blanks, and a line longer than the scanner's buffer
Lines ==
    { <<>>, <<" ", "\t">>, <<" ", "{}", "\t">>, <<"BIG", "{}">> }

RECURSIVE SeqsUpTo(_, _)
\* the sequences over S of length at most n
SeqsUpTo(S, n) ==
    IF n = 0 THEN {<<>>}
    ELSE LET shorter == SeqsUpTo(S, n - 1)
         IN  shorter \cup {Append(s, x) : s \in {t \in shorter : Len(t) = n - 1}, x \in S}

\* the contents a source may have
Streams == SeqsUpTo(Lines, MaxLines)

\* ------------------------------------------------------------------------
\* The validator (github.com/senzing/go-common/record), an external package
\* ------------------------------------------------------------------------

\* a Go error value: nil, or an error whose Error() text is msg
NilErr == [nil |-> TRUE, msg |-> <<>>]

Err(m) == [nil |-> FALSE, msg |-> m]

\* the words the text of a reason is made of
Words == {"RECORD_ID", "DATA_SOURCE", "not", "well", "formed", "field"}

\* every reason text of at most MaxReasonLen words
Reasons == SeqsUpTo(Words, MaxReasonLen)

\* the reason texts record.Validate returns in the runs of the whole program
ValidatorReasons ==
    { <<"DATA_SOURCE", "RECORD_ID">>, <<"DATA_SOURCE", "field">>,
      <<"not", "well", "formed">>, <<"not", "formed">> }

\* ------------------------------------------------------------------------
\* State
\* ------------------------------------------------------------------------

VARIABLES
    inputURL,      \* viper.GetString(option.InputURL)
    fileType,      \* viper.GetString(option.InputFileType)
    pc,            \* where the program is
    source,        \* the lines of the stream handed to validateLines
    pos,           \* how many lines the scanner has delivered
    totalLines,    \* validateLines: totalLines
    noRecordId,    \* validateLines: noRecordId
    noDataSource,  \* validateLines: noDataSource
    malformed,     \* validateLines: malformed
    badRecord,     \* validateLines: badRecord
    validated,     \* how many times record.Validate was called
    scanErr,       \* scanner.Err(): "nil", "ErrTooLong", "read error"
    ioOps,         \* the I/O calls made: os.Open, http.Get, os.Stdin
    opened,        \* the resources opened
    closes,        \* how many times Close() ran on each resource
    defers,        \* the deferred Close() calls of the running read function
    log,           \* what went to logger.LogMessage / LogMessageFromError
    stdout,        \* what went to fmt.Println / fmt.Printf / cmd.Help
    result,        \* what read() returned: "none", "true", "false"
    exitCode       \* the process exit status, once pc = "done"

vars == << inputURL, fileType, pc, source, pos, totalLines, noRecordId,
           noDataSource, malformed, badRecord, validated, scanErr, ioOps, opened,
           closes, defers, log, stdout, result, exitCode >>

inputs   == << inputURL, fileType >>
counters == << totalLines, noRecordId, noDataSource, malformed, badRecord >>
tally    == << source, pos, totalLines, noRecordId, noDataSource, malformed,
               badRecord, validated, scanErr >>
handles  == << opened, closes, defers >>

Resources == {"file", "body", "gzip"}

\* one message handed to the logger
LogMessage(id, text, args) == [id |-> id, text |-> text, args |-> args]

\* one piece of output on standard output
Out(text, args, err) == [text |-> text, args |-> args, err |-> err]

Init ==
    /\ inputURL \in Locators
    /\ fileType \in FileTypes
    /\ pc = "run"
    /\ source = <<>>
    /\ pos = 0
    /\ totalLines = 0
    /\ noRecordId = 0
    /\ noDataSource = 0
    /\ malformed = 0
    /\ badRecord = 0
    /\ validated = 0
    /\ scanErr = "nil"
    /\ ioOps = {}
    /\ opened = {}
    /\ closes = [r \in Resources |-> 0]
    /\ defers = <<>>
    /\ log = <<>>
    /\ stdout = <<>>
    /\ result = "none"
    /\ exitCode = 0

\* ------------------------------------------------------------------------
\* Execute and RootCmd.Run
\* ------------------------------------------------------------------------

\* Execute: RootCmd.Execute() returns an error (cobra could not parse the
\* command line; Run is not reached) and the process exits with status 1.
ExecuteError ==
    /\ pc = "run"
    /\ stdout' = Append(stdout, Out("Error: (cobra) and usage", <<>>, NilErr))
    /\ pc' = "done"
    /\ exitCode' = 1
    /\ UNCHANGED << inputs, tally, ioOps, handles, log, result >>

\* ------------------------------------------------------------------------
\* read
\* ------------------------------------------------------------------------

\* the test of the first branch of each scheme: validate as JSONL
IsJSONL(path, ft) == HasSuffix(path, <<"jsonl">>) \/ ToUpper(ft) = "JSONL"

\* the test of the second branch of each scheme: validate as GZ
IsGZ(path, ft) == HasSuffix(path, <<"gz">>) \/ ToUpper(ft) = "GZ"

\* u.Scheme == "file"
IsFileScheme(scheme) == scheme = "file"

\* IsHTTPScheme with every scheme that names a host taken for http
IsHTTPSchemeOrFTP(scheme) == scheme \in {"http", "https", "ftp"}

\* u.Scheme == "http" || u.Scheme == "https"
IsHTTPScheme(scheme) == scheme \in {"http", "https"}

\* the branch read() takes on a locator and a file type override
ReadBranch(url, ft) ==
    IF StrLen(url) = 0 THEN "readStdin"
    ELSE IF StrLen(url) < 5 THEN "tooShort"
    ELSE LET u == UrlParse(url) IN
         IF u.err THEN "parseError"
         ELSE IF IsFileScheme(u.Scheme) THEN
                 IF IsJSONL(u.Path, ft) THEN "readJSONLFile"
                 ELSE IF IsGZ(u.Path, ft) THEN "readGZFile"
                 ELSE "unknownFileType"
         ELSE IF IsHTTPScheme(u.Scheme) THEN
                 IF IsJSONL(u.Path, ft) THEN "readJSONLResource"
                 ELSE IF IsGZ(u.Path, ft) THEN "readGZResource"
                 ELSE "unknownResourceType"
         ELSE "unsupportedScheme"

\* the branches of read() that call a reader; the others return false
ReaderBranches ==
    {"readStdin", "readJSONLFile", "readGZFile", "readJSONLResource", "readGZResource"}

\* what read() hands to the logger before it returns or calls a reader
ReadLog(branch) ==
    LET validating == <<LogMessage(2, "Validating URL string", <<>>)>> IN
    CASE branch = "readStdin"   -> <<>>
      [] branch = "tooShort"    -> <<LogMessage(2002, "Check the inputURL parameter", <<>>)>>
      [] branch = "parseError"  ->
            Append(validating, LogMessage(9001, "Fatal error parsing inputURL.", <<>>))
      [] branch = "readJSONLFile" ->
            Append(validating, LogMessage(3, "Validating as a JSONL file.", <<>>))
      [] branch = "readGZFile"  ->
            Append(validating, LogMessage(4, "Validating a GZ file.", <<>>))
      [] branch = "unknownFileType" ->
            Append(validating, LogMessage(2003, "please rename with the .jsonl extension", <<>>))
      [] branch = "readJSONLResource" ->
            Append(validating, LogMessage(5, "Validating as a JSONL resource.", <<>>))
      [] branch = "readGZResource" ->
            Append(validating, LogMessage(6, "Validating a GZ resource.", <<>>))
      [] branch = "unknownResourceType" ->
            Append(validating, LogMessage(2004, "please rename with the .jsonl extension", <<>>))
      [] branch = "unsupportedScheme" ->
            Append(validating, LogMessage(9002, "We don't handle input URLs.", <<>>))

\* what read() prints on standard output
ReadOut(branch) ==
    LET url    == <<Out("inputURL:", <<>>, NilErr)>>
        scheme == Append(url, Out("scheme:", <<>>, NilErr))
    IN
    CASE branch \in {"readStdin", "tooShort"} -> <<>>
      [] branch = "readJSONLResource"   -> Append(scheme, Out("validate jsonl", <<>>, NilErr))
      [] branch = "readGZResource"      -> Append(scheme, Out("validate gz", <<>>, NilErr))
      [] branch = "unknownResourceType" -> Append(scheme, Out("ugh", <<>>, NilErr))
      [] OTHER -> url

\* RootCmd.Run calls read(), which inspects the locator and either calls one
\* of the readers or logs why it cannot and returns false.
Read ==
    /\ pc = "run"
    /\ LET branch == ReadBranch(inputURL, fileType) IN
         /\ log' = log \o ReadLog(branch)
         /\ stdout' = stdout \o ReadOut(branch)
         /\ IF branch \in ReaderBranches
            THEN pc' = branch /\ result' = result
            ELSE pc' = "help" /\ result' = "false"
    /\ UNCHANGED << inputs, tally, ioOps, handles, exitCode >>

\* RootCmd.Run: read() returned false, so cmd.Help() is printed; Run returns,
\* RootCmd.Execute() returns nil and the process ends normally.
Help ==
    /\ pc = "help"
    /\ stdout' = Append(stdout, Out("help", <<>>, NilErr))
    /\ pc' = "done"
    /\ exitCode' = 0
    /\ UNCHANGED << inputs, tally, ioOps, handles, log, result >>

\* ------------------------------------------------------------------------
\* The readers
\* ------------------------------------------------------------------------

\* how many of the deferred calls close resource r
Deferred(stack, r) == Cardinality({i \in 1..Len(stack) : stack[i] = r})

\* RunDefers running only the call deferred last
RunDefersLastOnly(stack) ==
    [r \in Resources |-> closes[r] + (IF stack # <<>> /\ Head(stack) = r THEN 1 ELSE 0)]

\* the deferred Close() calls all run when the function returns or panics
RunDefers(stack) == [r \in Resources |-> closes[r] + Deferred(stack, r)]

\* a reader returns false: its deferred calls run, Run goes on to cmd.Help()
ReturnFalse(id, text) ==
    /\ log' = Append(log, LogMessage(id, text, <<>>))
    /\ closes' = RunDefers(defers)
    /\ defers' = <<>>
    /\ result' = "false"
    /\ pc' = "help"
    /\ UNCHANGED << inputs, tally, opened, exitCode >>

\* a reader got its stream (resource is the stream it opened and whose Close()
\* it defers, <<>> for standard input) and calls validateLines on it
StartScan(resource) ==
    /\ source' \in Streams
    /\ opened' = opened \cup {resource[i] : i \in 1..Len(resource)}
    /\ defers' = resource \o defers
    /\ pc' = "scan"
    /\ UNCHANGED << inputs, pos, counters, validated, scanErr, closes, log, result,
                    exitCode >>

\* readJSONLFile: os.Open, defer file.Close(), validateLines(file)
ReadJSONLFile ==
    /\ pc = "readJSONLFile"
    /\ ioOps' = ioOps \cup {"os.Open"}
    /\ \/ ReturnFalse(9004, "Fatal error opening inputURL.") /\ stdout' = stdout
       \/ StartScan(<<"file">>) /\ stdout' = stdout

\* readJSONLResource: http.Get, defer response.Body.Close(), validateLines(body)
ReadJSONLResource ==
    /\ pc = "readJSONLResource"
    /\ ioOps' = ioOps \cup {"http.Get"}
    /\ \/ /\ ReturnFalse(9003, "Fatal error retrieving inputURL.")
          /\ stdout' = Append(stdout, Out("unable to get:", <<>>, NilErr))
       \/ StartScan(<<"body">>) /\ stdout' = stdout

\* readStdin: os.Stdin.Stat(); a named pipe is scanned, anything else is fatal
ReadStdin ==
    /\ pc = "readStdin"
    /\ stdout' = stdout
    /\ \/ ReturnFalse(9005, "Fatal error opening stdin.") /\ ioOps' = ioOps
       \/ StartScan(<<>>) /\ ioOps' = ioOps \cup {"os.Stdin"}
       \/ ReturnFalse(9006, "Fatal error stdin not piped.") /\ ioOps' = ioOps

\* the first half of readGZFile / readGZResource: the underlying stream is
\* opened and its Close() deferred
OpenUnderlying(resource, next) ==
    /\ opened' = opened \cup {resource}
    /\ defers' = <<resource>> \o defers
    /\ pc' = next
    /\ UNCHANGED << inputs, tally, closes, log, result, exitCode >>

\* readGZFile: os.Open, defer gzipfile.Close()
ReadGZFile ==
    /\ pc = "readGZFile"
    /\ ioOps' = ioOps \cup {"os.Open"}
    /\ stdout' = stdout
    /\ \/ ReturnFalse(9007, "Fatal error opening inputURL.")
       \/ OpenUnderlying("file", "gzipFile")

\* readGZFile: gzip.NewReader(gzipfile), defer reader.Close(), validateLines(reader)
GzipFile ==
    /\ pc = "gzipFile"
    /\ UNCHANGED << ioOps, stdout >>
    /\ \/ ReturnFalse(9008, "Fatal error reading inputURL.")
       \/ StartScan(<<"gzip">>)

\* readGZResource: http.Get, defer response.Body.Close()
ReadGZResource ==
    /\ pc = "readGZResource"
    /\ ioOps' = ioOps \cup {"http.Get"}
    /\ stdout' = stdout
    /\ \/ ReturnFalse(9009, "Fatal error retrieving inputURL.")
       \/ OpenUnderlying("body", "gzipResource")

\* readGZResource: gzip.NewReader(response.Body), defer reader.Close(),
\* validateLines(reader)
GzipResource ==
    /\ pc = "gzipResource"
    /\ UNCHANGED << ioOps, stdout >>
    /\ \/ ReturnFalse(9010, "Fatal error reading inputURL.")
       \/ StartScan(<<"gzip">>)

\* ------------------------------------------------------------------------
\* validateLines
\* ------------------------------------------------------------------------

\* the texts the reasons are searched for
RECORD_ID == <<"RECORD_ID">>
DATA_SOURCE == <<"DATA_SOURCE">>
NotWellFormed == <<"not", "well", "formed">>

\* Classify with the DATA_SOURCE test moved in front of the RECORD_ID test
ClassifyDataSourceFirst(err) ==
    IF err.nil THEN "none"
    ELSE IF Contains(err.msg, DATA_SOURCE) THEN "noDataSource"
    ELSE IF Contains(err.msg, RECORD_ID) THEN "noRecordId"
    ELSE IF Contains(err.msg, NotWellFormed) THEN "malformed"
    ELSE "badRecord"

\* the counter a failure with error err is counted in: the if / else if
\* chain on err.Error(), entered only when err != nil
Classify(err) ==
    IF err.nil THEN "none"
    ELSE IF Contains(err.msg, RECORD_ID) THEN "noRecordId"
    ELSE IF Contains(err.msg, DATA_SOURCE) THEN "noDataSource"
    ELSE IF Contains(err.msg, NotWellFormed) THEN "malformed"
    ELSE "badRecord"

\* CountLine with the increment moved inside the blank-line test
CountLineNonBlank(n, str) == IF StrLen(str) > 0 THEN n + 1 ELSE n

\* totalLines++, for every line the scanner delivers
CountLine(n, str) == n + 1

\* NonBlank with the blank-line test left out
NonBlankAlways(str) == TRUE

\* len(str) > 0: the line is not blank and goes to the validator
NonBlank(str) == StrLen(str) > 0

\* the scanner can deliver the line: it fits the buffer with its newline
Fits(line) == StrLen(line) < MaxScanTokenSize

\* scanner.Scan() returns false: end of input, or a line that does not fit
\* (scanner.Err() would be ErrTooLong; validateLines never looks at it)
ScanStops == IF pos = Len(source) THEN TRUE ELSE ~Fits(source[pos + 1])

\* what record.Validate may return on a line: valid, invalid with one of the
\* reasons, invalid with no error
Outcomes(reasons) ==
    {[valid |-> TRUE, err |-> NilErr], [valid |-> FALSE, err |-> NilErr]}
        \cup {[valid |-> FALSE, err |-> Err(m)] : m \in reasons}

\* one round of the loop of validateLines: the scanner delivers a line, the
\* line is counted, trimmed and, unless blank, validated and classified
ScanLine(reasons) ==
    /\ pc = "scan"
    /\ ~ScanStops
    /\ pos' = pos + 1
    /\ LET str == TrimSpace(source[pos + 1]) IN
         /\ totalLines' = CountLine(totalLines, str)
         /\ IF NonBlank(str)
            THEN \E out \in Outcomes(reasons) :
                   /\ validated' = validated + 1
                   /\ IF out.valid
                      THEN UNCHANGED << noRecordId, noDataSource, malformed, badRecord, stdout >>
                      ELSE LET class == Classify(out.err) IN
                           /\ stdout' = Append(stdout, Out("Line", <<totalLines'>>, out.err))
                           /\ noRecordId'   = noRecordId   + (IF class = "noRecordId"   THEN 1 ELSE 0)
                           /\ noDataSource' = noDataSource + (IF class = "noDataSource" THEN 1 ELSE 0)
                           /\ malformed'    = malformed    + (IF class = "malformed"    THEN 1 ELSE 0)
                           /\ badRecord'    = badRecord    + (IF class = "badRecord"    THEN 1 ELSE 0)
            ELSE UNCHANGED << noRecordId, noDataSource, malformed, badRecord, validated, stdout >>
    /\ UNCHANGED << inputs, source, pc, scanErr, ioOps, handles, log, result, exitCode >>

\* the loop of validateLines on a line record.Validate panics on
ValidatorPanic ==
    /\ pc = "scan"
    /\ ~ScanStops
    /\ NonBlank(TrimSpace(source[pos + 1]))
    /\ pos' = pos + 1
    /\ totalLines' = CountLine(totalLines, TrimSpace(source[pos + 1]))
    /\ validated' = validated + 1
    /\ pc' = "panic"
    /\ UNCHANGED << inputs, source, noRecordId, noDataSource, malformed, badRecord,
                    scanErr, ioOps, handles, log, stdout, result, exitCode >>

\* the panic unwinds the reader (its deferred calls run) and, nothing
\* recovering it, ends the process with status 2
Panic ==
    /\ pc = "panic"
    /\ closes' = RunDefers(defers)
    /\ defers' = <<>>
    /\ stdout' = Append(stdout, Out("panic:", <<>>, NilErr))
    /\ pc' = "done"
    /\ exitCode' = 2
    /\ UNCHANGED << inputs, tally, ioOps, opened, log, result >>

\* BadCount with the last counter left out of the sum
BadCountKnown(r, d, m, b) == r + d + m

\* noRecordId+noDataSource+malformed+badRecord
BadCount(r, d, m, b) == r + d + m + b

\* the category lines of the report: one per counter that is > 0
CategoryLines(r, d, m, b) ==
    (IF r > 0 THEN <<LogMessage(5, "line(s) had no RECORD_ID field.", <<r>>)>> ELSE <<>>)
    \o (IF d > 0 THEN <<LogMessage(6, "line(s) had no DATA_SOURCE field.", <<d>>)>> ELSE <<>>)
    \o (IF m > 0 THEN <<LogMessage(7, "line(s) are not well formed JSON-lines.", <<m>>)>> ELSE <<>>)
    \o (IF b > 0 THEN <<LogMessage(8, "line(s) did not validate for an unknown reason.", <<b>>)>>
        ELSE <<>>)

\* the total line, as handed to the logger
TotalLine(t, r, d, m, b) == LogMessage(9, "Validated lines, were bad.", <<t, BadCount(r, d, m, b)>>)

\* what follows the loop of validateLines, whatever ended it: the report is
\* written, the category lines and the total line to the logger, the total
\* line to standard output as well, and validateLines returns
WriteReport ==
    /\ log' = log \o CategoryLines(noRecordId, noDataSource, malformed, badRecord)
                  \o <<TotalLine(totalLines, noRecordId, noDataSource, malformed, badRecord)>>
    /\ stdout' = Append(stdout, Out("Validated lines, were bad.",
                     <<totalLines, BadCount(noRecordId, noDataSource, malformed, badRecord)>>,
                     NilErr))
    /\ pc' = "return"
    /\ UNCHANGED << inputs, source, pos, counters, validated, ioOps, handles, result,
                    exitCode >>

\* the end of validateLines: scanner.Scan() returns false at the end of the
\* input or on a line that does not fit the buffer, and the report is written
Report ==
    /\ pc = "scan"
    /\ ScanStops
    /\ scanErr' = (IF pos = Len(source) THEN "nil" ELSE "ErrTooLong")
    /\ WriteReport

\* the end of validateLines when the reader fails (an I/O fault, a corrupt
\* gzip stream) where the next line would start: scanner.Scan() returns false
\* and keeps the error, and the report is written all the same
ReadFault ==
    /\ pc = "scan"
    /\ scanErr' = "read error"
    /\ WriteReport

\* validateLines returned: the reader returns true (its deferred calls run),
\* Run returns, RootCmd.Execute() returns nil and the process ends normally
ReturnTrue ==
    /\ pc = "return"
    /\ closes' = RunDefers(defers)
    /\ defers' = <<>>
    /\ result' = "true"
    /\ pc' = "done"
    /\ exitCode' = 0
    /\ UNCHANGED << inputs, tally, ioOps, opened, log, stdout >>

\* ------------------------------------------------------------------------
\* Specifications
\* ------------------------------------------------------------------------

Next ==
    \/ ExecuteError
    \/ Read
    \/ Help
    \/ ReadJSONLFile
    \/ ReadJSONLResource
    \/ ReadStdin
    \/ ReadGZFile
    \/ GzipFile
    \/ ReadGZResource
    \/ GzipResource
    \/ ScanLine(ValidatorReasons)
    \/ ValidatorPanic
    \/ Panic
    \/ Report
    \/ ReadFault
    \/ ReturnTrue

\* the whole program, from Execute to the end of the process
Spec == Init /\ [][Next]_vars

\* validateLines on its own, called on a stream of one record, with every
\* reason text of at most MaxReasonLen words for record.Validate to return
InitClassify ==
    /\ inputURL = <<>>
    /\ fileType = ""
    /\ pc = "scan"
    /\ source = << <<"{}">> >>
    /\ pos = 0
    /\ totalLines = 0
    /\ noRecordId = 0
    /\ noDataSource = 0
    /\ malformed = 0
    /\ badRecord = 0
    /\ validated = 0
    /\ scanErr = "nil"
    /\ ioOps = {"os.Stdin"}
    /\ opened = {}
    /\ closes = [r \in Resources |-> 0]
    /\ defers = <<>>
    /\ log = <<>>
    /\ stdout = <<>>
    /\ result = "none"
    /\ exitCode = 0

NextClassify ==
    \/ ScanLine(Reasons)
    \/ Report
    \/ ReturnTrue

SpecClassify == InitClassify /\ [][NextClassify]_vars

\* ------------------------------------------------------------------------
\* What the properties below speak of
\* ------------------------------------------------------------------------

\* the lines the validator reported as invalid so far: each one printed
\* "Line <n> <err>" on standard output
Failures == {i \in 1..Len(stdout) : stdout[i].text = "Line"}

\* validateLines ran to its end and the reader returned true
Completed == pc = "done" /\ result = "true"

\* the sum of the four failure counters
Bad == noRecordId + noDataSource + malformed + badRecord

\* the text of the total line
TotalText == "Validated lines, were bad."

\* read() got as far as url.Parse and the locator parsed
Parsed == StrLen(inputURL) >= 5 /\ ~UrlParse(inputURL).err

\* the scheme of the locator
Scheme == UrlParse(inputURL).Scheme

\* the path of the locator
Path == UrlParse(inputURL).Path

\* a message with this text went to the logger
Logged(text) == \E i \in 1..Len(log) : log[i].text = text

\* ------------------------------------------------------------------------
\* C1
\* ------------------------------------------------------------------------

\* C1: when a run in which the reader did not fail completes, the scanner
\* has delivered every line of the source and totalLines equals the number
\* of lines of the source, blank lines included.
C1_TotalLinesCountsWholeSource ==
    (Completed /\ scanErr # "read error") =>
        (pos = Len(source) /\ totalLines = Len(source))

\* ------------------------------------------------------------------------
\* C2
\* ------------------------------------------------------------------------

\* C2: every line the validator reported as invalid has incremented exactly
\* one of the four failure counters by one (a failure with no reason
\* included), so the counters add up to the number of failures reported.
C2_EveryFailureCountedOnce ==
    Bad = Cardinality(Failures)

\* ------------------------------------------------------------------------
\* C3
\* ------------------------------------------------------------------------

\* the failures reported so far whose reason satisfies P
FailuresWith(P(_)) == Cardinality({i \in Failures : ~stdout[i].err.nil /\ P(stdout[i].err.msg)})

\* C3: a reason is counted by the first rule it matches, in the order
\* RECORD_ID, DATA_SOURCE, "not well formed", other: every reason containing
\* RECORD_ID is in noRecordId whatever else it contains, every reason with
\* DATA_SOURCE and no RECORD_ID is in noDataSource, every reason with "not
\* well formed" and neither of the two is in malformed, every other reason
\* is in badRecord.
C3_FirstMatchingRule ==
    /\ noRecordId = FailuresWith(LAMBDA m : Contains(m, RECORD_ID))
    /\ noDataSource = FailuresWith(LAMBDA m : /\ ~Contains(m, RECORD_ID)
                                              /\ Contains(m, DATA_SOURCE))
    /\ malformed = FailuresWith(LAMBDA m : /\ ~Contains(m, RECORD_ID)
                                           /\ ~Contains(m, DATA_SOURCE)
                                           /\ Contains(m, NotWellFormed))
    /\ badRecord = FailuresWith(LAMBDA m : /\ ~Contains(m, RECORD_ID)
                                           /\ ~Contains(m, DATA_SOURCE)
                                           /\ ~Contains(m, NotWellFormed))

\* a failure whose reason contains "not well formed" and then RECORD_ID has
\* been counted
C3_Witness ==
    /\ pos = 1
    /\ \E i \in Failures : stdout[i].err = Err(<<"not", "well", "formed", "RECORD_ID">>)
    /\ noRecordId = 1

\* ------------------------------------------------------------------------
\* C4
\* ------------------------------------------------------------------------

\* C4: at every point of a run the four failure counters add up to at most
\* totalLines, and to exactly totalLines only if every line read so far was
\* non-blank and was reported invalid by the validator.
C4_BadAtMostTotal ==
    /\ Bad <= totalLines
    /\ Bad = totalLines =>
          \A i \in 1..pos : /\ TrimSpace(source[i]) # <<>>
                            /\ \E j \in Failures : stdout[j].args = <<i>>

\* two lines were read, both invalid, and the counters add up to totalLines
C4_Witness ==
    /\ totalLines = 2
    /\ Bad = 2

\* ------------------------------------------------------------------------
\* C5
\* ------------------------------------------------------------------------

\* C5: a round of the loop on a line that is empty after trimming adds one
\* to totalLines and changes nothing else: the validator is not called, the
\* four failure counters stay as they are, nothing is printed or logged.
C5_BlankLineOnlyCounted ==
    [][ (pc = "scan" /\ pos' = pos + 1 /\ TrimSpace(source[pos + 1]) = <<>>)
        => /\ totalLines' = totalLines + 1
           /\ UNCHANGED << noRecordId, noDataSource, malformed, badRecord, validated,
                           stdout, log, pc, source, inputs, ioOps, handles, result,
                           exitCode >> ]_vars

\* a line of blanks only has been read and counted
C5_Witness ==
    /\ pos >= 1
    /\ source[pos] = <<" ", "\t">>
    /\ totalLines = pos
    /\ validated = 0

\* ------------------------------------------------------------------------
\* C6
\* ------------------------------------------------------------------------

\* a diagnostic went to the logger (the message ids from 2000 on)
Diagnostic == \E i \in 1..Len(log) : log[i].id >= 2000

\* C6: a run that read() gave up on (locator too short, unsupported scheme,
\* unrecognized file type, standard input not piped, open / GET / gzip
\* failure) ends with a diagnostic and a non-zero exit status; a run that
\* went through validateLines ends with the total line and exit status 0.
C6_FatalExitsNonZero ==
    pc = "done" =>
        /\ result = "false" => (Diagnostic /\ exitCode # 0)
        /\ result = "true" =>
              /\ exitCode = 0
              /\ stdout # <<>>
              /\ stdout[Len(stdout)].text = TotalText

\* ------------------------------------------------------------------------
\* C7
\* ------------------------------------------------------------------------

\* the locator is not empty and shorter than 5 characters
TooShort == 0 < StrLen(inputURL) /\ StrLen(inputURL) < 5

\* the locator parses and its scheme is none of file, http, https
UnsupportedScheme == Parsed /\ Scheme \notin {"file", "http", "https"}

\* C7: on a locator that is too short or has an unsupported scheme no file is
\* opened, no GET is issued, no line is validated, no total line is written,
\* and read() returns false.
C7_NoIOForUnresolvableLocator ==
    (TooShort \/ UnsupportedScheme) =>
        /\ ioOps = {}
        /\ opened = {}
        /\ pos = 0
        /\ validated = 0
        /\ ~Logged(TotalText)
        /\ \A i \in 1..Len(stdout) : stdout[i].text # TotalText
        /\ result # "true"
        /\ pc \in {"run", "help", "done"}
        /\ pc = "help" => result = "false"

\* read() has returned false on the locator ftp://h/d.jsonl
C7_Witness ==
    /\ UnsupportedScheme
    /\ Scheme = "ftp"
    /\ pc = "done"
    /\ result = "false"

\* ------------------------------------------------------------------------
\* C8
\* ------------------------------------------------------------------------

\* read() chose plain-text line decoding
ChosePlain ==
    Logged("Validating as a JSONL file.") \/ Logged("Validating as a JSONL resource.")

\* read() chose gzip-decompressed line decoding
ChoseGzip == Logged("Validating a GZ file.") \/ Logged("Validating a GZ resource.")

\* the path ends in .jsonl or the override is JSONL
DotJSONL == HasSuffix(Path, <<".", "jsonl">>) \/ ToUpper(fileType) = "JSONL"

\* the path ends in .gz or the override is GZ
DotGZ == HasSuffix(Path, <<".", "gz">>) \/ ToUpper(fileType) = "GZ"

\* C8: once read() has dispatched on a locator with scheme file, http or
\* https, the decoding is plain text if the path ends in .jsonl or the
\* override is JSONL, otherwise gzip if the path ends in .gz or the override
\* is GZ, otherwise read() fails with no source opened.
C8_DecodingByExtension ==
    (Parsed /\ Scheme \in {"file", "http", "https"} /\ pc # "run" /\ log # <<>>) =>
        /\ ChosePlain <=> DotJSONL
        /\ ChoseGzip <=> (~DotJSONL /\ DotGZ)
        /\ (~DotJSONL /\ ~DotGZ) => (ioOps = {} /\ opened = {} /\ result = "false")

\* ------------------------------------------------------------------------
\* C9
\* ------------------------------------------------------------------------

\* C9: no resource is closed twice or closed without having been opened, and
\* when the process has ended every resource the run opened has been closed
\* (after a normal return, after a failed gzip.NewReader, after a panic of
\* the validator).
C9_ResourcesReleasedOnce ==
    /\ \A r \in Resources : closes[r] <= 1 /\ (closes[r] = 1 => r \in opened)
    /\ pc \in {"help", "done"} => \A r \in opened : closes[r] = 1

\* the validator panicked in a run on a gzip file: the process has ended
\* with the file and the gzip reader closed
C9_Witness ==
    /\ pc = "done"
    /\ exitCode = 2
    /\ opened = {"file", "gzip"}
    /\ closes["file"] = 1
    /\ closes["gzip"] = 1

\* ------------------------------------------------------------------------
\* C10
\* ------------------------------------------------------------------------

\* validateLines has written its report
Reported == pc = "return" \/ Completed

\* what validateLines handed to the logger (the messages of read() carry no
\* numbers)
ReportLog == SelectSeq(log, LAMBDA e : e.args # <<>>)

\* the total lines on standard output
TotalsOnStdout == {i \in 1..Len(stdout) : stdout[i].text = TotalText}

\* the messages with this id in the report
WithId(id) == {i \in 1..Len(ReportLog) : ReportLog[i].id = id}

\* the line of one category is in the report if and only if its counter is
\* greater than zero, once, with the counter as its number
CategoryLine(id, counter) ==
    /\ counter > 0 <=> WithId(id) # {}
    /\ Cardinality(WithId(id)) <= 1
    /\ \A i \in WithId(id) : ReportLog[i].args = <<counter>>

C11_ScanFaultIsFatal ==
    scanErr # "nil" =>
        /\ TotalsOnStdout = {}
        /\ ~Logged(TotalText)
        /\ result # "true"
        /\ pc = "done" => exitCode # 0

====
